---- MODULE Spec2Model ----
(***************************************************************************)
(* SUMA (src/suma/demo.py): the content-acquisition-and-prompting pipeline *)
(* behind the two UI callbacks on_summarize and on_qa, and the cached      *)
(* credential lookup get_openai_api_key.                                   *)
(*                                                                         *)
(* Texts are TLA+ strings; Len, \o and SubSeq act on them character by     *)
(* character.  The external collaborators (web fetcher, file readers,      *)
(* model provider, secrets service) are nondeterministic: each call either *)
(* returns a value drawn from a small set or raises.                       *)
(*                                                                         *)
(* Python's None and the empty value are both falsy in the guards the code *)
(* uses on url and files (`if url and url.strip()`, `if not files`), so an *)
(* absent url is "" and an absent file list is << >> here.                 *)
(***************************************************************************)
EXTENDS Integers, Sequences, FiniteSets, TLC

VARIABLES
    pc,          \* position of the UI callback in its call chain
    op,          \* "summarize" | "qa" | "none": the callback that is running
    url,         \* argument url
    files,       \* argument files: the sequence of paths (f.name of each upload)
    question,    \* argument question (on_qa)
    parts,       \* make_context: local list parts
    texts,       \* collect_files_text: local list texts
    idx,         \* collect_files_text: position of the for loop (1-based)
    file_text,   \* make_context: local file_text
    content,     \* on_summarize / on_qa: local content (the assembled context)
    status,      \* "running" | "returned" | "raised": how the callback ended
    result,      \* the value returned to the UI
    fetches,     \* history: arguments of the fetch_website_contents calls of this action
    fetchLog,    \* history: outcomes of those calls
    reads,       \* history: <<path, reader>> of the reader calls of this action
    readLog,     \* history: per file of the loop, the outcome of read_any_file
    requests,    \* history: the chat-completion requests of this action
    replies,     \* history: the outcome of each of those requests
    cache,       \* module global __OPENAI_KEY_CACHE
    env_key,     \* environment variable OPENAI_API_KEY
    kpc,         \* per caller: position inside get_openai_api_key
    key,         \* per caller: local key
    ret,         \* per caller: the value returned
    contacted,   \* history, per caller: this call contacted the secrets service
    wrote,       \* history, per caller: this call assigned the cache
    startCache,  \* history, per caller: the cache when the call started
    everCached   \* history: the values the cache has held

uiVars == <<pc, op, url, files, question, parts, texts, idx, file_text, content, status, result, fetches, fetchLog, reads, readLog, requests, replies>>

keyVars == <<cache, env_key, kpc, key, ret, contacted, wrote, startCache, everCached>>

vars == <<pc, op, url, files, question, parts, texts, idx, file_text, content, status, result, fetches, fetchLog, reads, readLog, requests, replies, cache, env_key, kpc, key, ret, contacted, wrote, startCache, everCached>>

-----------------------------------------------------------------------------
(* Bounds of the model *)

MaxFiles == 2

NumCallers == 2

-----------------------------------------------------------------------------
(* Python string operations, computed as the library computes them *)

Min(a, b) == IF a <= b THEN a ELSE b

CharAt(s, i) == SubSeq(s, i, i)

RECURSIVE Rep(_, _)
Rep(s, n) == IF n = 0 THEN "" ELSE LET h == Rep(s, n \div 2) IN h \o h \o (IF n % 2 = 1 THEN s ELSE "")

Whitespace == {" ", "\t", "\n", "\r"}

RECURSIVE LStrip(_)
LStrip(s) == IF s # "" /\ CharAt(s, 1) \in Whitespace THEN LStrip(SubSeq(s, 2, Len(s))) ELSE s

RECURSIVE RStrip(_)
RStrip(s) == IF s # "" /\ CharAt(s, Len(s)) \in Whitespace THEN RStrip(SubSeq(s, 1, Len(s) - 1)) ELSE s

Strip(s) == RStrip(LStrip(s))

SliceNone(s, n) == s

Slice(s, n) == SubSeq(s, 1, Min(Len(s), n))

RECURSIVE Join(_, _)
Join(sep, seq) == IF seq = << >> THEN "" ELSE IF Len(seq) = 1 THEN seq[1] ELSE seq[1] \o sep \o Join(sep, Tail(seq))

UpperChars == "ABCDEFGHIJKLMNOPQRSTUVWXYZ"

LowerChars == "abcdefghijklmnopqrstuvwxyz"

LowerChar(c) == IF \E i \in 1..Len(UpperChars) : CharAt(UpperChars, i) = c THEN CharAt(LowerChars, CHOOSE i \in 1..Len(UpperChars) : CharAt(UpperChars, i) = c) ELSE c

RECURSIVE Lower(_)
Lower(s) == IF s = "" THEN "" ELSE LowerChar(CharAt(s, 1)) \o Lower(SubSeq(s, 2, Len(s)))

RFind(s, c) == IF \E i \in 1..Len(s) : CharAt(s, i) = c THEN CHOOSE i \in 1..Len(s) : CharAt(s, i) = c /\ \A j \in (i + 1)..Len(s) : CharAt(s, j) # c ELSE 0

Basename(p) == SubSeq(p, RFind(p, "/") + 1, Len(p))

SplitExt(p) == LET sepIndex == RFind(p, "/")  dotIndex == RFind(p, ".") IN IF dotIndex > sepIndex /\ \E k \in (sepIndex + 1)..(dotIndex - 1) : CharAt(p, k) # "." THEN <<SubSeq(p, 1, dotIndex - 1), SubSeq(p, dotIndex, Len(p))>> ELSE <<p, "">>

-----------------------------------------------------------------------------
(* Program constants *)

max_chars == 12000

SYSTEM_SUMMARY == "You are a concise, slightly snarky assistant. Summarize the provided content, ignoring boilerplate navigation. Respond in Markdown without code fences."

SYSTEM_QA == "You answer questions strictly using the provided content. If the answer is not present, say 'I don't know based on the provided content.' Respond concisely in Markdown."

NoContent == "[No content provided. Enter a URL or upload a document.]"

PleaseEnter == "Please enter a question."

EXT_READERS == [e \in {".txt", ".pdf", ".docx"} |-> CASE e = ".txt" -> "read_txt" [] e = ".pdf" -> "read_pdf" [] e = ".docx" -> "read_docx"]

-----------------------------------------------------------------------------
(* Inputs and outcomes of the external steps *)

Urls == {"", "  ", " http://a.io "}

Paths == {"/up/a.txt", "/up/Notes.PDF", "/up/data.CSV"}

RECURSIVE SeqsUpTo(_, _)
SeqsUpTo(S, n) == IF n = 0 THEN {<< >>} ELSE LET R == SeqsUpTo(S, n - 1) IN R \cup {Append(q, x) : q \in {r \in R : Len(r) = n - 1}, x \in S}

FileLists == SeqsUpTo(Paths, MaxFiles)

Questions == {"", " \n", " why? "}

LongText(n) == Rep("0123456789", n \div 10) \o SubSeq("0123456789", 1, n % 10)

WebTexts == {"", "web", LongText(max_chars - 5), LongText(max_chars + 1)}

FileTexts == {"", "doc", "docs"}

Exc(k, m) == [kind |-> k, msg |-> m]

FetchErrors == {Exc("HTTPError", "404 Not Found"), Exc("Timeout", "")}

ReadErrors == {Exc("FileNotFoundError", "No such file")}

ModelErrors == {Exc("APIConnectionError", "Connection error."), Exc("IndexError", "list index out of range")}

ModelTexts == {"", "ok"}

-----------------------------------------------------------------------------
(* The code's string formats *)

FetchErrorText(e) == "[Error fetching URL: " \o e.msg \o "]"

ReadErrorText(path, e) == "[Error reading " \o Basename(path) \o ": " \o e.msg \o "]"

UnsupportedError(ext) == Exc("ValueError", "Unsupported file type: " \o ext)

ErrorText(e) == "**Error:** " \o e.kind \o ": " \o e.msg

SummaryPrefix == "Summarize this:\n\n"

SummarizeMessages(c) == <<[role |-> "system", content |-> SYSTEM_SUMMARY], [role |-> "user", content |-> SummaryPrefix \o Slice(c, max_chars)]>>

QaPrefix == "Context:\n"

QaSuffix(q) == "\n\nQuestion: " \o q

AnswerMessages(c, q) == <<[role |-> "system", content |-> SYSTEM_QA], [role |-> "user", content |-> QaPrefix \o Slice(c, max_chars) \o QaSuffix(q)]>>

-----------------------------------------------------------------------------
(* The UI callbacks, one step per external call *)

None == "None"

Callers == 1..NumCallers

KeyLocals == /\ kpc = [c \in Callers |-> "idle"]
             /\ key = [c \in Callers |-> None]
             /\ ret = [c \in Callers |-> None]
             /\ contacted = [c \in Callers |-> FALSE]
             /\ wrote = [c \in Callers |-> FALSE]
             /\ startCache = [c \in Callers |-> None]

KeyResolved == /\ cache = "sk-live"
               /\ env_key = ""
               /\ everCached = {"sk-live"}
               /\ KeyLocals

KeyIdle == /\ cache = None
           /\ env_key \in {"", "sk-env"}
           /\ everCached = {}
           /\ KeyLocals

UiIdle == /\ pc = "idle"
          /\ op = "none"
          /\ url = ""
          /\ files = << >>
          /\ question = ""
          /\ parts = << >>
          /\ texts = << >>
          /\ idx = 1
          /\ file_text = ""
          /\ content = ""
          /\ status = "returned"
          /\ result = ""
          /\ fetches = << >>
          /\ fetchLog = << >>
          /\ reads = << >>
          /\ readLog = << >>
          /\ requests = << >>
          /\ replies = << >>

Begin(o, u, fs, q) == /\ op' = o
                      /\ url' = u
                      /\ files' = fs
                      /\ question' = q
                      /\ parts' = << >>
                      /\ texts' = << >>
                      /\ idx' = 1
                      /\ file_text' = ""
                      /\ content' = ""
                      /\ fetches' = << >>
                      /\ fetchLog' = << >>
                      /\ reads' = << >>
                      /\ readLog' = << >>
                      /\ requests' = << >>
                      /\ replies' = << >>

on_summarize(u, fs) == /\ pc = "idle"
                       /\ Begin("summarize", u, fs, "")
                       /\ pc' = "make_context"
                       /\ status' = "running"
                       /\ result' = ""
                       /\ UNCHANGED keyVars

on_qaNoStrip(u, fs, q) == /\ pc = "idle"
                          /\ Begin("qa", u, fs, q)
                          /\ IF q = ""
                                THEN /\ pc' = "done"
                                     /\ status' = "returned"
                                     /\ result' = PleaseEnter
                                ELSE /\ pc' = "make_context"
                                     /\ status' = "running"
                                     /\ result' = ""
                          /\ UNCHANGED keyVars

on_qa(u, fs, q) == /\ pc = "idle"
                   /\ Begin("qa", u, fs, q)
                   /\ IF Strip(q) = ""
                         THEN /\ pc' = "done"
                              /\ status' = "returned"
                              /\ result' = PleaseEnter
                         ELSE /\ pc' = "make_context"
                              /\ status' = "running"
                              /\ result' = ""
                   /\ UNCHANGED keyVars

HasUrlNoStrip == url # ""

HasUrl == url # "" /\ Strip(url) # ""

FetchOk(t) == /\ pc = "make_context"
              /\ HasUrl
              /\ fetches' = Append(fetches, Strip(url))
              /\ fetchLog' = Append(fetchLog, [ok |-> TRUE, text |-> t])
              /\ parts' = Append(parts, t)
              /\ pc' = "collect"
              /\ UNCHANGED <<op, url, files, question, texts, idx, file_text, content, status, result, reads, readLog, requests, replies>>
              /\ UNCHANGED keyVars

FetchFailUncaught(e) == /\ pc = "make_context"
                        /\ HasUrl
                        /\ fetches' = Append(fetches, Strip(url))
                        /\ fetchLog' = Append(fetchLog, [ok |-> FALSE, exc |-> e])
                        /\ status' = "raised"
                        /\ result' = e.msg
                        /\ pc' = "done"
                        /\ UNCHANGED <<op, url, files, question, parts, texts, idx, file_text, content, reads, readLog, requests, replies>>
                        /\ UNCHANGED keyVars

FetchFailSkipFiles(e) == /\ pc = "make_context"
                         /\ HasUrl
                         /\ fetches' = Append(fetches, Strip(url))
                         /\ fetchLog' = Append(fetchLog, [ok |-> FALSE, exc |-> e])
                         /\ parts' = Append(parts, FetchErrorText(e))
                         /\ pc' = "assemble"
                         /\ UNCHANGED <<op, url, files, question, texts, idx, file_text, content, status, result, reads, readLog, requests, replies>>
                         /\ UNCHANGED keyVars

FetchFail(e) == /\ pc = "make_context"
                /\ HasUrl
                /\ fetches' = Append(fetches, Strip(url))
                /\ fetchLog' = Append(fetchLog, [ok |-> FALSE, exc |-> e])
                /\ parts' = Append(parts, FetchErrorText(e))
                /\ pc' = "collect"
                /\ UNCHANGED <<op, url, files, question, texts, idx, file_text, content, status, result, reads, readLog, requests, replies>>
                /\ UNCHANGED keyVars

NoUrl == /\ pc = "make_context"
         /\ ~HasUrl
         /\ pc' = "collect"
         /\ UNCHANGED <<op, url, files, question, parts, texts, idx, file_text, content, status, result, fetches, fetchLog, reads, readLog, requests, replies>>
         /\ UNCHANGED keyVars

Ext(path) == SplitExt(Lower(path))[2]

InLoop == pc = "collect" /\ files # << >> /\ idx <= Len(files)

ReadOk(t) == /\ InLoop
             /\ Ext(files[idx]) \in DOMAIN EXT_READERS
             /\ reads' = Append(reads, <<files[idx], EXT_READERS[Ext(files[idx])]>>)
             /\ readLog' = Append(readLog, [ok |-> TRUE, text |-> t])
             /\ texts' = Append(texts, t)
             /\ idx' = idx + 1
             /\ UNCHANGED <<pc, op, url, files, question, parts, file_text, content, status, result, fetches, fetchLog, requests, replies>>
             /\ UNCHANGED keyVars

ReadFailAbort(e) == /\ InLoop
                    /\ Ext(files[idx]) \in DOMAIN EXT_READERS
                    /\ reads' = Append(reads, <<files[idx], EXT_READERS[Ext(files[idx])]>>)
                    /\ readLog' = Append(readLog, [ok |-> FALSE, exc |-> e])
                    /\ texts' = <<ReadErrorText(files[idx], e)>>
                    /\ idx' = Len(files) + 1
                    /\ UNCHANGED <<pc, op, url, files, question, parts, file_text, content, status, result, fetches, fetchLog, requests, replies>>
                    /\ UNCHANGED keyVars

ReadFail(e) == /\ InLoop
               /\ Ext(files[idx]) \in DOMAIN EXT_READERS
               /\ reads' = Append(reads, <<files[idx], EXT_READERS[Ext(files[idx])]>>)
               /\ readLog' = Append(readLog, [ok |-> FALSE, exc |-> e])
               /\ texts' = Append(texts, ReadErrorText(files[idx], e))
               /\ idx' = idx + 1
               /\ UNCHANGED <<pc, op, url, files, question, parts, file_text, content, status, result, fetches, fetchLog, requests, replies>>
               /\ UNCHANGED keyVars

ReadUnsupported == /\ InLoop
                   /\ Ext(files[idx]) \notin DOMAIN EXT_READERS
                   /\ readLog' = Append(readLog, [ok |-> FALSE, exc |-> UnsupportedError(Ext(files[idx]))])
                   /\ texts' = Append(texts, ReadErrorText(files[idx], UnsupportedError(Ext(files[idx]))))
                   /\ idx' = idx + 1
                   /\ UNCHANGED <<pc, op, url, files, question, parts, file_text, content, status, result, fetches, fetchLog, reads, requests, replies>>
                   /\ UNCHANGED keyVars

CollectReturn == /\ pc = "collect"
                 /\ files = << >> \/ idx > Len(files)
                 /\ file_text' = IF files = << >> THEN "" ELSE Join("\n\n", texts)
                 /\ pc' = "assemble"
                 /\ UNCHANGED <<op, url, files, question, parts, texts, idx, content, status, result, fetches, fetchLog, reads, readLog, requests, replies>>
                 /\ UNCHANGED keyVars

MakeContextReturnFilesFirst == /\ pc = "assemble"
                               /\ parts' = IF file_text # "" THEN <<file_text>> \o parts ELSE parts
                               /\ content' = IF parts' = << >> THEN NoContent ELSE Join("\n\n", parts')
                               /\ pc' = "prompt"
                               /\ UNCHANGED <<op, url, files, question, texts, idx, file_text, status, result, fetches, fetchLog, reads, readLog, requests, replies>>
                               /\ UNCHANGED keyVars

MakeContextReturn == /\ pc = "assemble"
                     /\ parts' = IF file_text # "" THEN Append(parts, file_text) ELSE parts
                     /\ content' = IF parts' = << >> THEN NoContent ELSE Join("\n\n", parts')
                     /\ pc' = "prompt"
                     /\ UNCHANGED <<op, url, files, question, texts, idx, file_text, status, result, fetches, fetchLog, reads, readLog, requests, replies>>
                     /\ UNCHANGED keyVars

Messages == IF op = "summarize" THEN SummarizeMessages(content) ELSE AnswerMessages(content, Strip(question))

Request == [op |-> op, model |-> "gpt-4.1-mini", messages |-> Messages]

ModelOk(r) == /\ pc = "prompt"
              /\ requests' = Append(requests, Request)
              /\ replies' = Append(replies, [ok |-> TRUE, text |-> r])
              /\ status' = "returned"
              /\ result' = r
              /\ pc' = "done"
              /\ UNCHANGED <<op, url, files, question, parts, texts, idx, file_text, content, fetches, fetchLog, reads, readLog>>
              /\ UNCHANGED keyVars

ModelFailRetry(e) == /\ pc = "prompt"
                     /\ requests' = Append(requests, Request)
                     /\ replies' = Append(replies, [ok |-> FALSE, exc |-> e])
                     /\ IF Len(requests) = 0
                           THEN UNCHANGED <<pc, status, result>>
                           ELSE /\ status' = "returned"
                                /\ result' = ErrorText(e)
                                /\ pc' = "done"
                     /\ UNCHANGED <<op, url, files, question, parts, texts, idx, file_text, content, fetches, fetchLog, reads, readLog>>
                     /\ UNCHANGED keyVars

ModelFail(e) == /\ pc = "prompt"
                /\ requests' = Append(requests, Request)
                /\ replies' = Append(replies, [ok |-> FALSE, exc |-> e])
                /\ status' = "returned"
                /\ result' = ErrorText(e)
                /\ pc' = "done"
                /\ UNCHANGED <<op, url, files, question, parts, texts, idx, file_text, content, fetches, fetchLog, reads, readLog>>
                /\ UNCHANGED keyVars

Display == /\ pc = "done"
           /\ pc' = "idle"
           /\ UNCHANGED <<op, url, files, question, parts, texts, idx, file_text, content, status, result, fetches, fetchLog, reads, readLog, requests, replies>>
           /\ UNCHANGED keyVars

Init == UiIdle /\ KeyResolved

Next == \/ \E u \in Urls, fs \in FileLists : on_summarize(u, fs)
        \/ \E u \in Urls, fs \in FileLists, q \in Questions : on_qa(u, fs, q)
        \/ \E t \in WebTexts : FetchOk(t)
        \/ \E e \in FetchErrors : FetchFail(e)
        \/ NoUrl
        \/ \E t \in FileTexts : ReadOk(t)
        \/ \E e \in ReadErrors : ReadFail(e)
        \/ ReadUnsupported
        \/ CollectReturn
        \/ MakeContextReturn
        \/ \E r \in ModelTexts : ModelOk(r)
        \/ \E e \in ModelErrors : ModelFail(e)
        \/ Display

Spec == Init /\ [][Next]_vars

TypeOK == /\ pc \in {"idle", "make_context", "collect", "assemble", "prompt", "done"}
          /\ status \in {"running", "returned", "raised"}
          /\ idx \in 1..(MaxFiles + 1)

-----------------------------------------------------------------------------
(* get_openai_api_key, called by several threads; one step per access to   *)
(* the module global or to the secrets service                             *)

JsonObject(fields) == [kind |-> "object", fields |-> fields]

JsonScalar == [kind |-> "scalar"]

JsonInvalid == [kind |-> "invalid"]

Secret(s, j) == [s |-> s, json |-> j]

Secrets == {Secret("{\"OPENAI_API_KEY\": \"sk-1\"}", JsonObject([OPENAI_API_KEY |-> "sk-1"])), Secret("{\"OPENAI_API_KEY\": \"sk-2\"}", JsonObject([OPENAI_API_KEY |-> "sk-2"])), Secret("{\"OPENAI_API_KEY\": \"\"}", JsonObject([OPENAI_API_KEY |-> ""])), Secret("{\"other\": \"x\"}", JsonObject([other |-> "x"])), Secret("sk-plain", JsonInvalid), Secret("", JsonInvalid), Secret("123", JsonScalar)}

ParseRaises(resp) == resp.json.kind = "scalar"

ParseKey(resp) == IF resp.json.kind = "invalid" THEN resp.s ELSE IF "OPENAI_API_KEY" \in DOMAIN resp.json.fields THEN resp.json.fields.OPENAI_API_KEY ELSE resp.s

CheckIgnoreCache(c) == /\ kpc[c] = "idle"
                       /\ startCache' = [startCache EXCEPT ![c] = cache]
                       /\ kpc' = [kpc EXCEPT ![c] = "get_secret"]
                       /\ key' = [key EXCEPT ![c] = None]
                       /\ ret' = [ret EXCEPT ![c] = None]
                       /\ contacted' = [contacted EXCEPT ![c] = FALSE]
                       /\ wrote' = [wrote EXCEPT ![c] = FALSE]
                       /\ UNCHANGED <<cache, env_key, everCached>>
                       /\ UNCHANGED uiVars

Check(c) == /\ kpc[c] = "idle"
            /\ startCache' = [startCache EXCEPT ![c] = cache]
            /\ kpc' = [kpc EXCEPT ![c] = IF cache # None THEN "return_cache" ELSE "get_secret"]
            /\ key' = [key EXCEPT ![c] = None]
            /\ ret' = [ret EXCEPT ![c] = None]
            /\ contacted' = [contacted EXCEPT ![c] = FALSE]
            /\ wrote' = [wrote EXCEPT ![c] = FALSE]
            /\ UNCHANGED <<cache, env_key, everCached>>
            /\ UNCHANGED uiVars

ReturnCache(c) == /\ kpc[c] = "return_cache"
                  /\ ret' = [ret EXCEPT ![c] = cache]
                  /\ kpc' = [kpc EXCEPT ![c] = "returned"]
                  /\ UNCHANGED <<cache, env_key, key, contacted, wrote, startCache, everCached>>
                  /\ UNCHANGED uiVars

GetSecretOk(c, resp) == /\ kpc[c] = "get_secret"
                        /\ contacted' = [contacted EXCEPT ![c] = TRUE]
                        /\ IF ParseRaises(resp) \/ ParseKey(resp) = ""
                              THEN /\ kpc' = [kpc EXCEPT ![c] = "raised"]
                                   /\ UNCHANGED key
                              ELSE /\ kpc' = [kpc EXCEPT ![c] = "store"]
                                   /\ key' = [key EXCEPT ![c] = ParseKey(resp)]
                        /\ UNCHANGED <<cache, env_key, ret, wrote, startCache, everCached>>
                        /\ UNCHANGED uiVars

GetSecretClientError(c) == /\ kpc[c] = "get_secret"
                           /\ contacted' = [contacted EXCEPT ![c] = TRUE]
                           /\ kpc' = [kpc EXCEPT ![c] = IF env_key # "" THEN "store_env" ELSE "raised"]
                           /\ UNCHANGED <<cache, env_key, key, ret, wrote, startCache, everCached>>
                           /\ UNCHANGED uiVars

GetSecretOtherError(c) == /\ kpc[c] = "get_secret"
                          /\ contacted' = [contacted EXCEPT ![c] = TRUE]
                          /\ kpc' = [kpc EXCEPT ![c] = "raised"]
                          /\ UNCHANGED <<cache, env_key, key, ret, wrote, startCache, everCached>>
                          /\ UNCHANGED uiVars

StoreEnv(c) == /\ kpc[c] = "store_env"
               /\ cache' = env_key
               /\ everCached' = everCached \cup {env_key}
               /\ wrote' = [wrote EXCEPT ![c] = TRUE]
               /\ kpc' = [kpc EXCEPT ![c] = "return_cache"]
               /\ UNCHANGED <<env_key, key, ret, contacted, startCache>>
               /\ UNCHANGED uiVars

Store(c) == /\ kpc[c] = "store"
            /\ cache' = key[c]
            /\ everCached' = everCached \cup {key[c]}
            /\ wrote' = [wrote EXCEPT ![c] = TRUE]
            /\ ret' = [ret EXCEPT ![c] = key[c]]
            /\ kpc' = [kpc EXCEPT ![c] = "returned"]
            /\ UNCHANGED <<env_key, key, contacted, startCache>>
            /\ UNCHANGED uiVars

Finish(c) == /\ kpc[c] \in {"returned", "raised"}
             /\ kpc' = [kpc EXCEPT ![c] = "idle"]
             /\ UNCHANGED <<cache, env_key, key, ret, contacted, wrote, startCache, everCached>>
             /\ UNCHANGED uiVars

InitKey == UiIdle /\ KeyIdle

NextKey == \/ \E c \in Callers : Check(c)
           \/ \E c \in Callers : ReturnCache(c)
           \/ \E c \in Callers, resp \in Secrets : GetSecretOk(c, resp)
           \/ \E c \in Callers : GetSecretClientError(c)
           \/ \E c \in Callers : GetSecretOtherError(c)
           \/ \E c \in Callers : StoreEnv(c)
           \/ \E c \in Callers : Store(c)
           \/ \E c \in Callers : Finish(c)

SpecKey == InitKey /\ [][NextKey]_vars

KeyTypeOK == /\ cache \in {None, "sk-1", "sk-2", "sk-plain", "sk-env", "{\"other\": \"x\"}"}
             /\ \A c \in Callers : kpc[c] \in {"idle", "return_cache", "get_secret", "store", "store_env", "returned", "raised"}

-----------------------------------------------------------------------------
(* Claims about the UI callbacks, checked under Spec *)

Ended == pc \in {"done", "idle"}

ContextMade == pc = "prompt" \/ requests # << >>

FetchFailed == fetchLog # << >> /\ ~fetchLog[1].ok

ModelFailed == replies # << >> /\ ~replies[1].ok

UserMessage(i) == requests[i].messages[2].content

\* C1: on_summarize and on_qa are total: whatever the fetch, the file reads
\* and the model request do (each may succeed or fail), the callback never
\* raises, and when it ends it has returned a string.
C1_Total == /\ status # "raised"
            /\ Ended => status = "returned" /\ result \in STRING

C1_Witness == /\ pc = "done"
              /\ FetchFailed
              /\ \E i \in 1..Len(readLog) : ~readLog[i].ok
              /\ ModelFailed
              /\ status = "returned"

\* C2: on_qa with an empty or whitespace-only question returns exactly
\* "Please enter a question." and performs no fetch, no file read and no
\* model request, whatever url and files are.
C2_BlankQuestion == (op = "qa" /\ Strip(question) = "") => /\ Ended
                                                           /\ status = "returned"
                                                           /\ result = "Please enter a question."
                                                           /\ fetches = << >>
                                                           /\ reads = << >>
                                                           /\ readLog = << >>
                                                           /\ requests = << >>

C2_Witness == /\ op = "qa"
              /\ question = " \n"
              /\ Strip(url) # ""
              /\ files # << >>
              /\ pc = "done"
              /\ result = "Please enter a question."

C3_Pre(i) == IF requests[i].op = "summarize" THEN "Summarize this:\n\n" ELSE "Context:\n"

C3_Suf(i) == IF requests[i].op = "summarize" THEN "" ELSE "\n\nQuestion: " \o Strip(question)

C3_Embedded(i) == SubSeq(UserMessage(i), Len(C3_Pre(i)) + 1, Len(UserMessage(i)) - Len(C3_Suf(i)))

\* C3: in every model request the context embedded in the user instruction is
\* the prefix of the assembled context of length min(len(context), 12000): at
\* most 12000 characters, and unchanged when the context has at most 12000.
C3_Truncation == \A i \in 1..Len(requests) : /\ UserMessage(i) = C3_Pre(i) \o C3_Embedded(i) \o C3_Suf(i)
                                             /\ Len(C3_Embedded(i)) <= 12000
                                             /\ Len(C3_Embedded(i)) = Min(Len(content), 12000)
                                             /\ C3_Embedded(i) = SubSeq(content, 1, Len(C3_Embedded(i)))
                                             /\ Len(content) <= 12000 => C3_Embedded(i) = content

C3_Witness == /\ pc = "done"
              /\ op = "qa"
              /\ Len(content) = 12001
              /\ Len(requests) = 1
              /\ Len(C3_Embedded(1)) = 12000

NoTextYielded == /\ \A i \in 1..Len(fetchLog) : fetchLog[i].ok /\ fetchLog[i].text = ""
                 /\ \A i \in 1..Len(readLog) : readLog[i].ok /\ readLog[i].text = ""

\* C4: make_context never returns the empty string; whenever the URL and the
\* files together yield no text it returns the sentinel
\* "[No content provided. Enter a URL or upload a document.]".
C4_NeverEmpty == ContextMade => /\ content # ""
                                /\ NoTextYielded => content = "[No content provided. Enter a URL or upload a document.]"

\* C5: with an absent, empty or whitespace-only URL and no files make_context
\* returns exactly the sentinel and calls neither the fetcher nor a reader;
\* on_summarize then sends the sentinel as the context in one model request.
C5_Sentinel == (Strip(url) = "" /\ files = << >> /\ ContextMade) => /\ content = "[No content provided. Enter a URL or upload a document.]"
                                                                    /\ fetches = << >>
                                                                    /\ reads = << >>
                                                                    /\ (op = "summarize" /\ Ended) => /\ Len(requests) = 1
                                                                                                      /\ UserMessage(1) = "Summarize this:\n\n[No content provided. Enter a URL or upload a document.]"

C5_Witness == /\ op = "summarize"
              /\ url = "  "
              /\ files = << >>
              /\ pc = "done"
              /\ Len(requests) = 1

FilesCollected == pc = "assemble" \/ ContextMade

\* C6: when a non-blank URL is supplied and the fetch fails, make_context does
\* not raise: "[Error fetching URL: <message>]" is its first part, the files
\* are still all read and their text appended after it, and the callback goes
\* on to the model request.
C6_FetchFailure == FetchFailed => /\ status # "raised"
                                  /\ Strip(url) # ""
                                  /\ parts # << >>
                                  /\ parts[1] = "[Error fetching URL: " \o fetchLog[1].exc.msg \o "]"
                                  /\ FilesCollected => Len(readLog) = Len(files)
                                  /\ ContextMade => content = parts[1] \o (IF file_text # "" THEN "\n\n" \o file_text ELSE "")
                                  /\ Ended => Len(requests) = 1

C6_Witness == /\ pc = "done"
              /\ FetchFailed
              /\ Len(files) = 2
              /\ content = "[Error fetching URL: 404 Not Found]\n\ndoc\n\ndocs"
              /\ Len(requests) = 1

C7_Entry(i) == IF readLog[i].ok THEN readLog[i].text ELSE "[Error reading " \o Basename(files[i]) \o ": " \o readLog[i].exc.msg \o "]"

C7_Entries == [i \in 1..Len(readLog) |-> C7_Entry(i)]

\* C7: collect_files_text processes the files independently and in order: the
\* result for n files is the blank-line join of exactly n entries, the i-th
\* being the i-th file's text when its read succeeds and
\* "[Error reading <basename>: <message>]" when it fails (an unsupported
\* extension gives the message "Unsupported file type: <ext>"); a failing file
\* neither aborts the batch nor removes or reorders other entries.
C7_Batch == /\ texts = C7_Entries
            /\ pc = "collect" => Len(texts) = idx - 1
            /\ \A i \in 1..Len(readLog) : files[i] = "/up/data.CSV" => texts[i] = "[Error reading data.CSV: Unsupported file type: .csv]"
            /\ (FilesCollected /\ files # << >>) => /\ Len(texts) = Len(files)
                                                    /\ file_text = Join("\n\n", C7_Entries)
            /\ (FilesCollected /\ Len(files) = 2) => file_text = C7_Entry(1) \o "\n\n" \o C7_Entry(2)

C7_Witness == /\ pc = "assemble"
              /\ files = <<"/up/a.txt", "/up/Notes.PDF">>
              /\ file_text = "[Error reading a.txt: No such file]\n\ndoc"

\* C8: when the model request fails the callback returns
\* "**Error:** <kind>: <message>" as its sole output and does not retry: every
\* action issues at most one model request, and exactly one when on_summarize
\* is called or on_qa is called with a non-blank question.
C8_SingleRequest == /\ Len(requests) <= 1
                    /\ Len(replies) = Len(requests)
                    /\ (Ended /\ ModelFailed) => result = "**Error:** " \o replies[1].exc.kind \o ": " \o replies[1].exc.msg
                    /\ (pc = "done" /\ (op = "summarize" \/ Strip(question) # "")) => Len(requests) = 1

C8_Witness == /\ pc = "done"
              /\ op = "qa"
              /\ Len(requests) = 1
              /\ result = "**Error:** APIConnectionError: Connection error."

C9_UrlPart == IF fetchLog = << >> THEN << >> ELSE IF fetchLog[1].ok THEN <<fetchLog[1].text>> ELSE <<"[Error fetching URL: " \o fetchLog[1].exc.msg \o "]">>

C9_FilePart == IF file_text = "" THEN << >> ELSE <<file_text>>

\* C9: make_context returns its parts joined by a blank line in order: the URL
\* part first whenever a non-blank URL is supplied, the files' aggregate text
\* after it whenever the files yield text, nothing else; when only one of the
\* two contributes a part the result is exactly that part.
C9_Order == ContextMade => /\ (Strip(url) # "") <=> (C9_UrlPart # << >>)
                           /\ parts = C9_UrlPart \o C9_FilePart
                           /\ (C9_UrlPart # << >> /\ C9_FilePart # << >>) => content = C9_UrlPart[1] \o "\n\n" \o file_text
                           /\ (C9_UrlPart # << >> /\ C9_FilePart = << >>) => content = C9_UrlPart[1]
                           /\ (C9_UrlPart = << >> /\ C9_FilePart # << >>) => content = file_text

C9_Witness == /\ pc = "prompt"
              /\ fetchLog = <<[ok |-> TRUE, text |-> "web"]>>
              /\ file_text = "doc\n\ndocs"
              /\ content = "web\n\ndoc\n\ndocs"

-----------------------------------------------------------------------------
(* Claims about get_openai_api_key, checked under SpecKey *)

Returns(c) == kpc[c] # "returned" /\ kpc'[c] = "returned"

Raises(c) == kpc[c] # "raised" /\ kpc'[c] = "raised"

C10_LateCalls == \A c \in Callers : /\ (Returns(c) /\ startCache[c] # None) => /\ ~contacted'[c]
                                                                              /\ ~wrote'[c]
                                                                              /\ ret'[c] = cache
                                                                              /\ ret'[c] \in everCached
                                    /\ Raises(c) => /\ cache' = cache
                                                    /\ ~wrote'[c]

\* C10 as stated: once a call has stored a key the cache is read-only, every
\* call that starts afterwards returns that cached key without contacting the
\* secrets service, and a call that fails stores nothing.
C10_ReadOnly == [][(cache # None => cache' = cache) /\ C10_LateCalls]_vars

\* C10 as amended: a stored key is never cleared and is only replaced by a
\* call that started while the cache was still empty (last write wins); a call
\* that starts with a key in the cache returns the key the cache holds when it
\* returns, without contacting the secrets service and without writing; a call
\* that fails stores nothing.
C10_LastWriteWins == [][/\ cache # None => cache' # None
                        /\ cache' # cache => \E c \in Callers : /\ startCache[c] = None
                                                               /\ kpc[c] \in {"store", "store_env"}
                                                               /\ wrote'[c]
                                                               /\ contacted[c]
                        /\ C10_LateCalls]_vars

C10_Witness == /\ Cardinality(everCached) = 2
               /\ \E c \in Callers : /\ kpc[c] = "returned"
                                     /\ startCache[c] # None
                                     /\ ret[c] = cache
                                     /\ ret[c] # startCache[c]
                                     /\ ~contacted[c]

====
